---- MODULE Spec2Model ----
(***************************************************************************)
(* State-machine model of the MediBox firmware (src/version2/main.cpp):    *)
(* the four button interrupt handlers, the cooperative loop() split at its *)
(* calls, the alarm scheduler, Stop and Snooze, the environment monitor,   *)
(* the light sampling / telemetry steps and the MQTT config callback.      *)
(*                                                                         *)
(* Time is millis(): it advances in delay(100) of every loop iteration and *)
(* while connectToBroker() blocks in its 5000 ms retry delay.  All stored  *)
(* timestamps are earlier readings of millis(), so the unsigned            *)
(* differences of the code are plain differences for any uptime below      *)
(* 2^32 ms, which the bounds stay far below.                               *)
(* The status LED is an output nothing here reads.                         *)
(***************************************************************************)
EXTENDS Integers, Sequences, FiniteSets, TLC

\* ---- program constants ----
MIN_TEMP == 24
MAX_TEMP == 32
MIN_HUMIDITY == 65
MAX_HUMIDITY == 80
DEBOUNCE_TIME == 200
ENV_CHECK_INTERVAL == 2000
SNOOZE_DURATION == 120000
BEEP_INTERVAL == 500
LOOP_DELAY == 100
BROKER_RETRY_DELAY == 5000
SETUP_DELAY == 3000
DEFAULT_TIMEZONE == 19800
samplingInterval == 5000
sendingInterval == 120000
maxLDRValue == 4095
minLDRValue == 0
menuItemCount == 4

\* ---- bounds of the model ----
\* loop() iterations explored
MaxLoops == 10
\* loop() iterations that find the broker gone for a long outage
MaxOutages == 3
\* loop() iterations explored with fast iterations, and with remote configuration
MaxFineLoops == 4
MaxLightLoops == 5
\* config messages delivered
MaxMessages == 2
\* presses of Up/Down on a setting page keep the hour, the minute and the timezone
\* (in half hours) within this distance of their defaults
MaxHourAdjust == 0
MaxMinuteAdjust == 1
MaxZoneAdjust == 0
\* with the broker unreachable: loop() iterations explored, and the uptime (ms) up to
\* which the failed attempts are followed
MaxBrokerLoops == 3
MaxUptime == 13000
\* loop() iterations explored while the user sets the time zone
MaxZoneLoops == 66
\* loop() iterations and long outages explored while the environment is watched
MaxEnvLoops == 40
MaxEnvOutages == 1
\* presses of Up/Down on SetAlarmHour and SetAlarmMinute keep the hour and the minute
\* within this distance of their defaults while the ranges are explored
MaxRangeAdjust == 1
\* loop() iterations and long outages explored while the user sets and deletes alarms
MaxDeleteLoops == 17
MaxDeleteOutages == 2
\* loop() iterations explored with gaps of every length between them
MaxSendLoops == 8
\* failed attempts of one connectToBroker() call (each waits 5000 ms): a short
\* reconnect, and an outage as long as the send interval and the snooze window
ShortRetries == {1}
LongRetries == {24}
\* UTC epoch seconds at millis() = 0: local time 23:58:00
BootEpochs == {239280}
\* (temperature, humidity) readings of the DHT sensor
EnvReadings == {<<28, 70>>, <<23, 70>>, <<28, 81>>}
\* raw LDR readings
LdrReadings == {0, 4095}

Slots == {0, 1}
Pages == {"WELCOME", "SHOW_TIME", "MAIN_MENU", "SET_ALARM_HOUR", "SET_ALARM_MINUTE",
          "SET_TIMEZONE", "VIEW_ALARMS", "ALARM_TRIGGERED", "CONFIRM_DELETE"}

VARIABLES
    now,                \* millis()
    ntpEpoch,           \* UTC epoch (s) the time client holds for millis() = 0
    loops,              \* loop() iterations started
    outages,            \* long broker outages so far
    msgs,               \* config messages delivered so far
    pc,                 \* position of the main context inside loop()
    currentTime,        \* loop()'s local currentTime
    btnUpPressed, btnLeftPressed, btnDownPressed, btnRightPressed,
    stopAlarmFlag, snoozeAlarmFlag, lastInterruptTime,
    currentState, menuOption, viewAlarmsSelection, currentAlarmIndex, timeZoneOffset,
    alarms, alarmTriggered,
    envWarning, temperature, humidity, lastEnvCheck,
    buzzer, lastBeep, buzzerState,
    ts, tu, theta_offset, T_med, controlFactor,
    servo,              \* the last servo.write(theta): none yet, an angle or NaN
    lightIntensitySum, sampleCount, lastSampleTime, lastSendTime

timeVars == <<now, ntpEpoch>>
btnVars == <<btnUpPressed, btnLeftPressed, btnDownPressed, btnRightPressed>>
isrVars == <<btnUpPressed, btnLeftPressed, btnDownPressed, btnRightPressed,
             stopAlarmFlag, snoozeAlarmFlag, lastInterruptTime>>
menuVars == <<menuOption, viewAlarmsSelection, currentAlarmIndex, timeZoneOffset>>
envVars == <<envWarning, temperature, humidity, lastEnvCheck>>
beepVars == <<lastBeep, buzzerState>>
cfgVars == <<ts, tu, theta_offset, T_med, controlFactor>>
lightVars == <<lightIntensitySum, sampleCount, lastSampleTime, lastSendTime>>
vars == <<now, ntpEpoch, loops, outages, msgs, pc, currentTime,
          btnUpPressed, btnLeftPressed, btnDownPressed, btnRightPressed,
          stopAlarmFlag, snoozeAlarmFlag, lastInterruptTime,
          currentState, menuOption, viewAlarmsSelection, currentAlarmIndex, timeZoneOffset,
          alarms, alarmTriggered,
          envWarning, temperature, humidity, lastEnvCheck,
          buzzer, lastBeep, buzzerState,
          ts, tu, theta_offset, T_med, controlFactor, servo,
          lightIntensitySum, sampleCount, lastSampleTime, lastSendTime>>

\* ---- state after setup() ----
Init ==
    /\ now = SETUP_DELAY
    /\ ntpEpoch \in BootEpochs
    /\ loops = 0
    /\ outages = 0
    /\ msgs = 0
    /\ pc = "begin"
    /\ currentTime = 0
    /\ btnUpPressed = FALSE /\ btnLeftPressed = FALSE
    /\ btnDownPressed = FALSE /\ btnRightPressed = FALSE
    /\ stopAlarmFlag = FALSE /\ snoozeAlarmFlag = FALSE
    /\ lastInterruptTime = 0
    /\ currentState = "WELCOME"
    /\ menuOption = 0 /\ viewAlarmsSelection = 0 /\ currentAlarmIndex = 0
    /\ timeZoneOffset = DEFAULT_TIMEZONE
    /\ alarms = [i \in Slots |-> [hour |-> 0, minute |-> 0, active |-> FALSE,
                                  ringing |-> FALSE, snoozed |-> FALSE,
                                  snoozeStartTime |-> 0]]
    /\ alarmTriggered = FALSE
    /\ envWarning = FALSE /\ temperature = 0 /\ humidity = 0 /\ lastEnvCheck = 0
    /\ buzzer = FALSE /\ lastBeep = 0 /\ buzzerState = FALSE
    /\ ts = 5000 /\ tu = 120000
    /\ theta_offset = 3000 /\ T_med = 3000 /\ controlFactor = 75
    /\ servo = [commanded |-> "none", theta |-> 0]
    /\ lightIntensitySum = 0 /\ sampleCount = 0
    /\ lastSampleTime = 0 /\ lastSendTime = 0

\* ---- the time client (NTPClient) ----
getEpochTime == timeZoneOffset + ntpEpoch + (now \div 1000)
getHours == (getEpochTime % 86400) \div 3600
getMinutes == (getEpochTime % 3600) \div 60

\* ---- interrupt service routines ----
\* mutant: the debounce window tested with >=
DebouncePassed_AtLeast == now - lastInterruptTime >= DEBOUNCE_TIME

\* the test of all four handlers (lines 134, 141, 148, 158)
DebouncePassed == now - lastInterruptTime > DEBOUNCE_TIME

handleUpInterrupt ==
    /\ DebouncePassed
    /\ btnUpPressed' = TRUE
    /\ lastInterruptTime' = now
    /\ UNCHANGED <<btnLeftPressed, btnDownPressed, btnRightPressed,
                   stopAlarmFlag, snoozeAlarmFlag>>

handleLeftInterrupt ==
    /\ DebouncePassed
    /\ btnLeftPressed' = TRUE
    /\ lastInterruptTime' = now
    /\ UNCHANGED <<btnUpPressed, btnDownPressed, btnRightPressed,
                   stopAlarmFlag, snoozeAlarmFlag>>

handleDownInterrupt ==
    /\ DebouncePassed
    /\ btnDownPressed' = TRUE
    /\ snoozeAlarmFlag' = IF currentState = "ALARM_TRIGGERED" THEN TRUE ELSE snoozeAlarmFlag
    /\ lastInterruptTime' = now
    /\ UNCHANGED <<btnUpPressed, btnLeftPressed, btnRightPressed, stopAlarmFlag>>

handleRightInterrupt ==
    /\ DebouncePassed
    /\ btnRightPressed' = TRUE
    /\ stopAlarmFlag' = IF currentState = "ALARM_TRIGGERED" THEN TRUE ELSE stopAlarmFlag
    /\ lastInterruptTime' = now
    /\ UNCHANGED <<btnUpPressed, btnLeftPressed, btnDownPressed, snoozeAlarmFlag>>

mainVars == <<now, ntpEpoch, loops, outages, msgs, pc, currentTime,
              currentState, menuOption, viewAlarmsSelection, currentAlarmIndex,
              timeZoneOffset, alarms, alarmTriggered,
              envWarning, temperature, humidity, lastEnvCheck,
              buzzer, lastBeep, buzzerState,
              ts, tu, theta_offset, T_med, controlFactor, servo,
              lightIntensitySum, sampleCount, lastSampleTime, lastSendTime>>

\* A falling edge on a button pin: the handler runs in interrupt context, between
\* any two steps of loop().  A dropped edge changes nothing.
EdgeUp == handleUpInterrupt /\ UNCHANGED mainVars
EdgeLeft == handleLeftInterrupt /\ UNCHANGED mainVars
EdgeDown == handleDownInterrupt /\ UNCHANGED mainVars
EdgeRight == handleRightInterrupt /\ UNCHANGED mainVars

\* ---- alarm scheduler ----
\* mutant: the snooze window tested with >
SnoozePending_Strict(a) == a.snoozed /\ ~(now - a.snoozeStartTime > SNOOZE_DURATION)

\* lines 530-537: the slot is snoozed and its window has not elapsed (continue)
SnoozePending(a) == a.snoozed /\ ~(now - a.snoozeStartTime >= SNOOZE_DURATION)

\* lines 530-539: an expired snooze is cleared and the slot rearmed to the current minute
Rearmed(a) ==
    IF a.snoozed
    THEN [a EXCEPT !.snoozed = FALSE, !.hour = getHours, !.minute = getMinutes]
    ELSE a

\* lines 541-543: the slot matches the wall clock in this evaluation
Matches(a) ==
    /\ ~SnoozePending(a)
    /\ Rearmed(a).active
    /\ ~Rearmed(a).ringing
    /\ Rearmed(a).hour = getHours
    /\ Rearmed(a).minute = getMinutes

\* one iteration of the for loop of checkAlarms
checkSlot(a) ==
    IF SnoozePending(a) THEN a
    ELSE IF Matches(a) THEN [Rearmed(a) EXCEPT !.ringing = TRUE]
    ELSE Rearmed(a)

\* mutant: the scan stops at the first slot that rings
checkAlarms_FirstOnly ==
    IF alarmTriggered
    THEN UNCHANGED <<alarms, alarmTriggered, currentState>>
    ELSE /\ alarms' = [i \in Slots |->
                         IF i = 1 /\ Matches(alarms[0]) /\ Matches(alarms[1])
                         THEN Rearmed(alarms[1])
                         ELSE checkSlot(alarms[i])]
         /\ alarmTriggered' = (\E i \in Slots : Matches(alarms[i]))
         /\ currentState' = IF \E i \in Slots : Matches(alarms[i])
                            THEN "ALARM_TRIGGERED" ELSE currentState

checkAlarms ==
    IF alarmTriggered
    THEN UNCHANGED <<alarms, alarmTriggered, currentState>>
    ELSE /\ alarms' = [i \in Slots |-> checkSlot(alarms[i])]
         /\ alarmTriggered' = (\E i \in Slots : Matches(alarms[i]))
         /\ currentState' = IF \E i \in Slots : Matches(alarms[i])
                            THEN "ALARM_TRIGGERED" ELSE currentState

\* mutant: Stop clears the indexed slot only
stopAlarm_IndexedOnly ==
    /\ buzzer' = FALSE
    /\ alarmTriggered' = FALSE
    /\ alarms' = [alarms EXCEPT ![currentAlarmIndex] =
                     [@ EXCEPT !.ringing = FALSE, !.snoozed = FALSE]]
    /\ currentState' = "SHOW_TIME"

\* mutant: Stop leaves the page as it is
stopAlarm_KeepPage ==
    /\ buzzer' = FALSE
    /\ alarmTriggered' = FALSE
    /\ alarms' = [i \in Slots |-> [alarms[i] EXCEPT !.ringing = FALSE, !.snoozed = FALSE]]
    /\ UNCHANGED currentState

\* lines 604-615
stopAlarm ==
    /\ buzzer' = FALSE
    /\ alarmTriggered' = FALSE
    /\ alarms' = [i \in Slots |-> [alarms[i] EXCEPT !.ringing = FALSE, !.snoozed = FALSE]]
    /\ currentState' = "SHOW_TIME"

\* mutant: Snooze leaves the slot ringing
snoozeAlarm_KeepRinging ==
    /\ buzzer' = FALSE
    /\ alarmTriggered' = FALSE
    /\ alarms' = [alarms EXCEPT ![currentAlarmIndex] =
                     [@ EXCEPT !.snoozed = TRUE, !.snoozeStartTime = now]]
    /\ currentState' = "SHOW_TIME"

snoozeAlarm ==
    /\ buzzer' = FALSE
    /\ alarmTriggered' = FALSE
    /\ alarms' = [alarms EXCEPT ![currentAlarmIndex] =
                     [@ EXCEPT !.ringing = FALSE, !.snoozed = TRUE,
                               !.snoozeStartTime = now]]
    /\ currentState' = "SHOW_TIME"

\* the first-match scan of updateDisplay and handleAlarmTrigger
FirstRinging ==
    IF alarms[0].ringing THEN 0
    ELSE IF alarms[1].ringing THEN 1
    ELSE currentAlarmIndex

handleAlarmTrigger ==
    /\ IF now - lastBeep > BEEP_INTERVAL
       THEN /\ buzzerState' = ~buzzerState
            /\ buzzer' = ~buzzerState
            /\ lastBeep' = now
       ELSE /\ buzzer' = FALSE
            /\ UNCHANGED <<buzzerState, lastBeep>>
    /\ currentAlarmIndex' = FirstRinging

updateDisplay ==
    currentAlarmIndex' = IF currentState = "ALARM_TRIGGERED"
                         THEN FirstRinging ELSE currentAlarmIndex

\* ---- UI state machine ----
\* mutant: the deletion clears both slots
Deactivate_Both(i) ==
    alarms' = [j \in Slots |-> [alarms[j] EXCEPT !.active = FALSE, !.ringing = FALSE,
                                                 !.snoozed = FALSE]]

\* lines 700-702 and 743-745
Deactivate(i) ==
    alarms' = [alarms EXCEPT ![i] = [@ EXCEPT !.active = FALSE, !.ringing = FALSE,
                                              !.snoozed = FALSE]]

handleRightButton ==
    /\ UNCHANGED timeZoneOffset
    /\ CASE currentState = "WELCOME" ->
              /\ currentState' = "SHOW_TIME"
              /\ UNCHANGED <<menuOption, viewAlarmsSelection, currentAlarmIndex,
                             alarms, alarmTriggered, buzzer>>
         [] currentState = "SHOW_TIME" ->
              /\ currentState' = "MAIN_MENU"
              /\ menuOption' = 0
              /\ UNCHANGED <<viewAlarmsSelection, currentAlarmIndex,
                             alarms, alarmTriggered, buzzer>>
         [] currentState = "MAIN_MENU" ->
              /\ currentState' = CASE menuOption \in {0, 1} -> "SET_ALARM_HOUR"
                                   [] menuOption = 2 -> "SET_TIMEZONE"
                                   [] menuOption = 3 -> "VIEW_ALARMS"
                                   [] OTHER -> currentState
              /\ currentAlarmIndex' = IF menuOption \in {0, 1} THEN menuOption
                                      ELSE currentAlarmIndex
              /\ viewAlarmsSelection' = IF menuOption = 3 THEN 0 ELSE viewAlarmsSelection
              /\ UNCHANGED <<menuOption, alarms, alarmTriggered, buzzer>>
         [] currentState = "SET_ALARM_HOUR" ->
              /\ currentState' = "SET_ALARM_MINUTE"
              /\ UNCHANGED <<menuOption, viewAlarmsSelection, currentAlarmIndex,
                             alarms, alarmTriggered, buzzer>>
         [] currentState = "SET_ALARM_MINUTE" ->
              /\ alarms' = [alarms EXCEPT ![currentAlarmIndex].active = TRUE]
              /\ currentState' = "MAIN_MENU"
              /\ UNCHANGED <<menuOption, viewAlarmsSelection, currentAlarmIndex,
                             alarmTriggered, buzzer>>
         [] currentState = "SET_TIMEZONE" ->
              /\ currentState' = "MAIN_MENU"
              /\ UNCHANGED <<menuOption, viewAlarmsSelection, currentAlarmIndex,
                             alarms, alarmTriggered, buzzer>>
         [] currentState = "VIEW_ALARMS" ->
              /\ currentState' = IF alarms[viewAlarmsSelection].active
                                 THEN "CONFIRM_DELETE" ELSE currentState
              /\ UNCHANGED <<menuOption, viewAlarmsSelection, currentAlarmIndex,
                             alarms, alarmTriggered, buzzer>>
         [] currentState = "CONFIRM_DELETE" ->
              /\ Deactivate(viewAlarmsSelection)
              /\ currentState' = "VIEW_ALARMS"
              /\ UNCHANGED <<menuOption, viewAlarmsSelection, currentAlarmIndex,
                             alarmTriggered, buzzer>>
         [] currentState = "ALARM_TRIGGERED" ->
              /\ stopAlarm
              /\ UNCHANGED <<menuOption, viewAlarmsSelection, currentAlarmIndex>>

handleLeftButton ==
    /\ currentState' =
          CASE currentState = "SHOW_TIME" -> "WELCOME"
            [] currentState \in {"MAIN_MENU", "VIEW_ALARMS", "CONFIRM_DELETE"} -> "SHOW_TIME"
            [] currentState \in {"SET_ALARM_HOUR", "SET_ALARM_MINUTE", "SET_TIMEZONE"} ->
                 "MAIN_MENU"
            [] OTHER -> currentState
    /\ UNCHANGED <<menuOption, viewAlarmsSelection, currentAlarmIndex, timeZoneOffset,
                   alarms, alarmTriggered, buzzer>>

\* mutant: the offset wraps on reaching 86400
handleUpButton_WrapAtLimit ==
    /\ UNCHANGED <<currentAlarmIndex, alarmTriggered, buzzer>>
    /\ CASE currentState = "SET_ALARM_HOUR" ->
              /\ alarms' = [alarms EXCEPT ![currentAlarmIndex].hour = (@ + 1) % 24]
              /\ UNCHANGED <<currentState, menuOption, viewAlarmsSelection, timeZoneOffset>>
         [] currentState = "SET_ALARM_MINUTE" ->
              /\ alarms' = [alarms EXCEPT ![currentAlarmIndex].minute = (@ + 1) % 60]
              /\ UNCHANGED <<currentState, menuOption, viewAlarmsSelection, timeZoneOffset>>
         [] currentState = "SET_TIMEZONE" ->
              /\ timeZoneOffset' = IF timeZoneOffset + 1800 >= 86400
                                   THEN timeZoneOffset + 1800 - 86400
                                   ELSE timeZoneOffset + 1800
              /\ UNCHANGED <<currentState, menuOption, viewAlarmsSelection, alarms>>
         [] currentState = "MAIN_MENU" ->
              /\ menuOption' = (menuOption - 1 + menuItemCount) % menuItemCount
              /\ UNCHANGED <<currentState, viewAlarmsSelection, timeZoneOffset, alarms>>
         [] currentState = "VIEW_ALARMS" ->
              /\ viewAlarmsSelection' = (viewAlarmsSelection - 1 + 2) % 2
              /\ UNCHANGED <<currentState, menuOption, timeZoneOffset, alarms>>
         [] currentState = "CONFIRM_DELETE" ->
              /\ Deactivate(viewAlarmsSelection)
              /\ currentState' = "VIEW_ALARMS"
              /\ UNCHANGED <<menuOption, viewAlarmsSelection, timeZoneOffset>>
         [] OTHER ->
              UNCHANGED <<currentState, menuOption, viewAlarmsSelection, timeZoneOffset,
                          alarms>>

\* lines 723-749
handleUpButton ==
    /\ UNCHANGED <<currentAlarmIndex, alarmTriggered, buzzer>>
    /\ CASE currentState = "SET_ALARM_HOUR" ->
              /\ alarms' = [alarms EXCEPT ![currentAlarmIndex].hour = (@ + 1) % 24]
              /\ UNCHANGED <<currentState, menuOption, viewAlarmsSelection, timeZoneOffset>>
         [] currentState = "SET_ALARM_MINUTE" ->
              /\ alarms' = [alarms EXCEPT ![currentAlarmIndex].minute = (@ + 1) % 60]
              /\ UNCHANGED <<currentState, menuOption, viewAlarmsSelection, timeZoneOffset>>
         [] currentState = "SET_TIMEZONE" ->
              /\ timeZoneOffset' = IF timeZoneOffset + 1800 > 86400
                                   THEN timeZoneOffset + 1800 - 86400
                                   ELSE timeZoneOffset + 1800
              /\ UNCHANGED <<currentState, menuOption, viewAlarmsSelection, alarms>>
         [] currentState = "MAIN_MENU" ->
              /\ menuOption' = (menuOption - 1 + menuItemCount) % menuItemCount
              /\ UNCHANGED <<currentState, viewAlarmsSelection, timeZoneOffset, alarms>>
         [] currentState = "VIEW_ALARMS" ->
              /\ viewAlarmsSelection' = (viewAlarmsSelection - 1 + 2) % 2
              /\ UNCHANGED <<currentState, menuOption, timeZoneOffset, alarms>>
         [] currentState = "CONFIRM_DELETE" ->
              /\ Deactivate(viewAlarmsSelection)
              /\ currentState' = "VIEW_ALARMS"
              /\ UNCHANGED <<menuOption, viewAlarmsSelection, timeZoneOffset>>
         [] OTHER ->
              UNCHANGED <<currentState, menuOption, viewAlarmsSelection, timeZoneOffset,
                          alarms>>

\* mutant: hour and minute are decremented without adding the modulus first, the
\* remainder of -1 being -1
handleDownButton_NoBias ==
    /\ UNCHANGED <<currentAlarmIndex, alarmTriggered, buzzer>>
    /\ CASE currentState = "SET_ALARM_HOUR" ->
              /\ alarms' = [alarms EXCEPT ![currentAlarmIndex].hour = IF @ = 0 THEN -1 ELSE @ - 1]
              /\ UNCHANGED <<currentState, menuOption, viewAlarmsSelection, timeZoneOffset>>
         [] currentState = "SET_ALARM_MINUTE" ->
              /\ alarms' = [alarms EXCEPT ![currentAlarmIndex].minute = IF @ = 0 THEN -1 ELSE @ - 1]
              /\ UNCHANGED <<currentState, menuOption, viewAlarmsSelection, timeZoneOffset>>
         [] currentState = "SET_TIMEZONE" ->
              /\ timeZoneOffset' = IF timeZoneOffset - 1800 < -86400
                                   THEN timeZoneOffset - 1800 + 86400
                                   ELSE timeZoneOffset - 1800
              /\ UNCHANGED <<currentState, menuOption, viewAlarmsSelection, alarms>>
         [] currentState = "MAIN_MENU" ->
              /\ menuOption' = (menuOption + 1) % menuItemCount
              /\ UNCHANGED <<currentState, viewAlarmsSelection, timeZoneOffset, alarms>>
         [] currentState = "VIEW_ALARMS" ->
              /\ viewAlarmsSelection' = (viewAlarmsSelection + 1) % 2
              /\ UNCHANGED <<currentState, menuOption, timeZoneOffset, alarms>>
         [] currentState = "CONFIRM_DELETE" ->
              /\ currentState' = "VIEW_ALARMS"
              /\ UNCHANGED <<menuOption, viewAlarmsSelection, timeZoneOffset, alarms>>
         [] OTHER ->
              UNCHANGED <<currentState, menuOption, viewAlarmsSelection, timeZoneOffset,
                          alarms>>

\* mutant: the menu cursor stops at the last entry
handleDownButton_StopAtLast ==
    /\ UNCHANGED <<currentAlarmIndex, alarmTriggered, buzzer>>
    /\ CASE currentState = "SET_ALARM_HOUR" ->
              /\ alarms' = [alarms EXCEPT ![currentAlarmIndex].hour = (@ - 1 + 24) % 24]
              /\ UNCHANGED <<currentState, menuOption, viewAlarmsSelection, timeZoneOffset>>
         [] currentState = "SET_ALARM_MINUTE" ->
              /\ alarms' = [alarms EXCEPT ![currentAlarmIndex].minute = (@ - 1 + 60) % 60]
              /\ UNCHANGED <<currentState, menuOption, viewAlarmsSelection, timeZoneOffset>>
         [] currentState = "SET_TIMEZONE" ->
              /\ timeZoneOffset' = IF timeZoneOffset - 1800 < -86400
                                   THEN timeZoneOffset - 1800 + 86400
                                   ELSE timeZoneOffset - 1800
              /\ UNCHANGED <<currentState, menuOption, viewAlarmsSelection, alarms>>
         [] currentState = "MAIN_MENU" ->
              /\ menuOption' = IF menuOption + 1 < menuItemCount THEN menuOption + 1 ELSE menuOption
              /\ UNCHANGED <<currentState, viewAlarmsSelection, timeZoneOffset, alarms>>
         [] currentState = "VIEW_ALARMS" ->
              /\ viewAlarmsSelection' = (viewAlarmsSelection + 1) % 2
              /\ UNCHANGED <<currentState, menuOption, timeZoneOffset, alarms>>
         [] currentState = "CONFIRM_DELETE" ->
              /\ currentState' = "VIEW_ALARMS"
              /\ UNCHANGED <<menuOption, viewAlarmsSelection, timeZoneOffset, alarms>>
         [] OTHER ->
              UNCHANGED <<currentState, menuOption, viewAlarmsSelection, timeZoneOffset,
                          alarms>>

\* lines 751-774
handleDownButton ==
    /\ UNCHANGED <<currentAlarmIndex, alarmTriggered, buzzer>>
    /\ CASE currentState = "SET_ALARM_HOUR" ->
              /\ alarms' = [alarms EXCEPT ![currentAlarmIndex].hour = (@ - 1 + 24) % 24]
              /\ UNCHANGED <<currentState, menuOption, viewAlarmsSelection, timeZoneOffset>>
         [] currentState = "SET_ALARM_MINUTE" ->
              /\ alarms' = [alarms EXCEPT ![currentAlarmIndex].minute = (@ - 1 + 60) % 60]
              /\ UNCHANGED <<currentState, menuOption, viewAlarmsSelection, timeZoneOffset>>
         [] currentState = "SET_TIMEZONE" ->
              /\ timeZoneOffset' = IF timeZoneOffset - 1800 < -86400
                                   THEN timeZoneOffset - 1800 + 86400
                                   ELSE timeZoneOffset - 1800
              /\ UNCHANGED <<currentState, menuOption, viewAlarmsSelection, alarms>>
         [] currentState = "MAIN_MENU" ->
              /\ menuOption' = (menuOption + 1) % menuItemCount
              /\ UNCHANGED <<currentState, viewAlarmsSelection, timeZoneOffset, alarms>>
         [] currentState = "VIEW_ALARMS" ->
              /\ viewAlarmsSelection' = (viewAlarmsSelection + 1) % 2
              /\ UNCHANGED <<currentState, menuOption, timeZoneOffset, alarms>>
         [] currentState = "CONFIRM_DELETE" ->
              /\ currentState' = "VIEW_ALARMS"
              /\ UNCHANGED <<menuOption, viewAlarmsSelection, timeZoneOffset, alarms>>
         [] OTHER ->
              UNCHANGED <<currentState, menuOption, viewAlarmsSelection, timeZoneOffset,
                          alarms>>

\* ---- remote config ingestion ----
Topics == {"sampling_interval", "sending_interval", "AmpTemp", "ControlFactor",
           "minAngle", "other"}
\* payloads as character sequences
Payloads == {<<"1", "0">>, <<"2">>, <<"a", "b">>, <<"-", "3">>, <<"0", ".", "5">>,
             <<"1", "a">>}
DigitChars == {"0", "1", "2", "3", "4", "5", "6", "7", "8", "9"}
DigitVal(c) == CHOOSE d \in 0..9 : <<"0", "1", "2", "3", "4", "5", "6", "7", "8", "9">>[d + 1] = c

\* the digit run from position i on: stops at the first non-digit, 0 when there is none
RECURSIVE atoiFrom(_, _, _)
atoiFrom(msg, i, acc) ==
    IF i > Len(msg) \/ msg[i] \notin DigitChars THEN acc
    ELSE atoiFrom(msg, i + 1, acc * 10 + DigitVal(msg[i]))

\* the position after the digit run from position i on
RECURSIVE DigitsEnd(_, _)
DigitsEnd(msg, i) ==
    IF i > Len(msg) \/ msg[i] \notin DigitChars THEN i ELSE DigitsEnd(msg, i + 1)

\* the position after an optional sign, and the sign
NumStart(msg) == IF Len(msg) > 0 /\ msg[1] \in {"-", "+"} THEN 2 ELSE 1
NumSign(msg) == IF Len(msg) > 0 /\ msg[1] = "-" THEN -1 ELSE 1

\* atoi: optional sign, then the digit run
atoi(msg) == NumSign(msg) * atoiFrom(msg, NumStart(msg), 0)

\* the digit at position i as a number, 0 when there is none
DigitAt(msg, i) == IF i <= Len(msg) /\ msg[i] \in DigitChars THEN DigitVal(msg[i]) ELSE 0

\* atof in hundredths (the scale of theta_offset, T_med, controlFactor): optional sign,
\* digit run, optional point and fraction, of which the payloads have at most two digits
atof(msg) ==
    LET e == DigitsEnd(msg, NumStart(msg))
        whole == atoiFrom(msg, NumStart(msg), 0)
        frac == IF e <= Len(msg) /\ msg[e] = "."
                THEN 10 * DigitAt(msg, e + 1)
                     + (IF DigitsEnd(msg, e + 1) > e + 1 THEN DigitAt(msg, e + 2) ELSE 0)
                ELSE 0
    IN NumSign(msg) * (100 * whole + frac)

\* mutant: the sending interval converted like the sampling interval
recieveCallback_SecondsForBoth(topic, message) ==
    /\ ts' = IF topic = "sampling_interval" THEN atoi(message) * 1000 ELSE ts
    /\ tu' = IF topic = "sending_interval" THEN atoi(message) * 1000 ELSE tu
    /\ theta_offset' = IF topic = "minAngle" THEN atof(message) ELSE theta_offset
    /\ controlFactor' = IF topic = "ControlFactor" THEN atof(message) ELSE controlFactor
    /\ T_med' = IF topic = "AmpTemp" THEN atof(message) ELSE T_med

recieveCallback(topic, message) ==
    /\ ts' = IF topic = "sampling_interval" THEN atoi(message) * 1000 ELSE ts
    /\ tu' = IF topic = "sending_interval" THEN atoi(message) * 60000 ELSE tu
    /\ theta_offset' = IF topic = "minAngle" THEN atof(message) ELSE theta_offset
    /\ controlFactor' = IF topic = "ControlFactor" THEN atof(message) ELSE controlFactor
    /\ T_med' = IF topic = "AmpTemp" THEN atof(message) ELSE T_med

\* ---- light-servo controller ----
\* Float values are kept as [k, v]: k = "fin" with v the value (angles, factors and
\* temperatures in hundredths, logarithms in thousandths), k = "inf" with v the sign,
\* or k = "nan".
Fin(v) == [k |-> "fin", v |-> v]
Inf(sign) == [k |-> "inf", v |-> sign]
NaN == [k |-> "nan", v |-> 0]
Sgn(v) == IF v > 0 THEN 1 ELSE IF v < 0 THEN -1 ELSE 0

\* floor(log2(n)) for n >= 1
RECURSIVE Log2Floor(_)
Log2Floor(n) == IF n < 2 THEN 0 ELSE 1 + Log2Floor(n \div 2)

\* 2^k
RECURSIVE Pow2(_)
Pow2(k) == IF k = 0 THEN 1 ELSE 2 * Pow2(k - 1)

\* 10000 * ln(n) for an integer n >= 1: n = m * 2^k with m in [1, 2), ln(m) from the
\* series 2 (y + y^3 / 3 + y^5 / 5), y = (m - 1) / (m + 1)
LnTenThousandths(n) ==
    LET k == Log2Floor(n)
        nn == IF k > 15 THEN n \div Pow2(k - 15) ELSE n * Pow2(15 - k)
        y == ((nn - 32768) * 10000) \div (nn + 32768)
        y2 == (y * y) \div 10000
        y3 == (y2 * y) \div 10000
        y5 == (y3 * y2) \div 10000
    IN (k * 69315) \div 10 + 2 * (y + y3 \div 3 + y5 \div 5)

\* a / b rounded toward zero
Quot(a, b) == IF a >= 0 THEN a \div b ELSE -((-a) \div b)

Abs(a) == IF a >= 0 THEN a ELSE -a

\* the product of two floats, f being scaled by scale; x is divided first where the
\* product of the two scaled numbers would pass 2^31
Times(x, f, scale) ==
    CASE x.k = "nan" \/ f.k = "nan" -> NaN
      [] x.k = "inf" /\ f.k = "inf" -> Inf(x.v * f.v)
      [] x.k = "inf" -> IF f.v = 0 THEN NaN ELSE Inf(x.v * Sgn(f.v))
      [] f.k = "inf" -> IF x.v = 0 THEN NaN ELSE Inf(f.v * Sgn(x.v))
      [] f.v # 0 /\ Abs(x.v) > 2000000000 \div Abs(f.v) -> Fin(Quot(x.v, scale) * f.v)
      [] OTHER -> Fin(Quot(x.v * f.v, scale))

\* line 370: log((float)ts / (float)tu), in thousandths
LogRatio(n, d) ==
    CASE d = 0 /\ n = 0 -> NaN
      [] d = 0 /\ n > 0 -> Inf(1)
      [] d = 0 /\ n < 0 -> NaN
      [] d # 0 /\ n = 0 -> Inf(-1)
      [] d # 0 /\ n # 0 /\ Sgn(n) # Sgn(d) -> NaN
      [] OTHER ->
           LET a == IF n < 0 THEN -n ELSE n
               b == IF d < 0 THEN -d ELSE d
               l == LnTenThousandths(a) - LnTenThousandths(b)
           IN Fin(Quot(l, 10))

\* line 371: temperature / T_med, in thousandths (temp in degrees, tmed in hundredths)
TempRatio(temp, tmed) ==
    CASE tmed = 0 /\ temp = 0 -> NaN
      [] tmed = 0 /\ temp # 0 -> Inf(Sgn(temp))
      [] OTHER -> Fin((temp * 100000) \div tmed)

\* a finite number plus a float
Plus(a, x) == IF x.k = "fin" THEN Fin(a + x.v) ELSE x

\* lines 366-371: theta before the clamp, in hundredths of a degree
Theta(ldrValue, temp) ==
    LET light == ((maxLDRValue - minLDRValue - ldrValue) * 1000)
                     \div (maxLDRValue - minLDRValue)
        x1 == Fin(((18000 - theta_offset) * light) \div 1000)
        x2 == Times(x1, Fin(controlFactor), 100)
        x3 == Times(x2, LogRatio(ts, tu), 1000)
        x4 == Times(x3, TempRatio(temp, T_med), 1000)
    IN Plus(theta_offset, x4)

\* mutant: the clamp without its lower limit
constrain_UpperOnly(theta, low, high) ==
    CASE theta.k = "nan" -> NaN
      [] theta.k = "inf" -> IF theta.v < 0 THEN theta ELSE Fin(high)
      [] OTHER -> IF theta.v > high THEN Fin(high) ELSE theta

\* line 373: constrain(theta, theta_offset, 180.0) is
\* theta < low ? low : (theta > high ? high : theta), and NaN compares false
constrain(theta, low, high) ==
    CASE theta.k = "nan" -> NaN
      [] theta.k = "inf" -> IF theta.v < 0 THEN Fin(low) ELSE Fin(high)
      [] OTHER -> IF theta.v < low THEN Fin(low)
                  ELSE IF theta.v > high THEN Fin(high) ELSE theta

\* line 374.  servo.write takes an int: passing NaN is undefined, so the position
\* it leaves the servo in is not told
ServoWrite(theta) ==
    IF theta.k = "nan" THEN [commanded |-> "NaN", theta |-> 0]
    ELSE [commanded |-> "angle", theta |-> theta.v]

\* lines 359-377
adjustServo(ldrValue, temp) ==
    servo' = ServoWrite(constrain(Theta(ldrValue, temp), theta_offset, 18000))

\* ---- environment monitor ----
\* mutant: the buzzer follows the warning alone
checkEnvironment_BuzzerOnWarning(readings) ==
    IF now - lastEnvCheck > ENV_CHECK_INTERVAL
    THEN \E r \in readings :
           /\ temperature' = r[1]
           /\ humidity' = r[2]
           /\ lastEnvCheck' = now
           /\ envWarning' = (r[1] < MIN_TEMP \/ r[1] > MAX_TEMP
                             \/ r[2] < MIN_HUMIDITY \/ r[2] > MAX_HUMIDITY)
           /\ buzzer' = envWarning'
    ELSE UNCHANGED <<temperature, humidity, lastEnvCheck, envWarning, buzzer>>

\* lines 437-454
checkEnvironment(readings) ==
    IF now - lastEnvCheck > ENV_CHECK_INTERVAL
    THEN \E r \in readings :
           /\ temperature' = r[1]
           /\ humidity' = r[2]
           /\ lastEnvCheck' = now
           /\ envWarning' = (r[1] < MIN_TEMP \/ r[1] > MAX_TEMP
                             \/ r[2] < MIN_HUMIDITY \/ r[2] > MAX_HUMIDITY)
           /\ buzzer' = (envWarning' /\ ~alarmTriggered)
    ELSE UNCHANGED <<temperature, humidity, lastEnvCheck, envWarning, buzzer>>

\* ---- loop(), one action per call or block ----
uiVars == <<currentState, menuOption, viewAlarmsSelection, currentAlarmIndex,
            timeZoneOffset, alarms, alarmTriggered, buzzer>>

\* lines 245-251: connectToBroker() blocks for k failed attempts, then loop() reads
\* millis() into currentTime
LoopStart(k, maxLoops) ==
    /\ pc = "begin"
    /\ loops < maxLoops
    /\ loops' = loops + 1
    /\ now' = now + k * BROKER_RETRY_DELAY
    /\ currentTime' = now'
    /\ pc' = "btnRight"
    /\ UNCHANGED <<ntpEpoch, msgs, isrVars, uiVars, envVars, beepVars, cfgVars, servo, lightVars>>

LoopBeginAfter(k) == LoopStart(k, MaxLoops)

\* the broker is connected
LoopBegin == LoopBeginAfter(0) /\ UNCHANGED outages

\* the connection was lost and comes back after a short reconnect
LoopReconnect == \E k \in ShortRetries : LoopBeginAfter(k) /\ UNCHANGED outages

\* the connection was lost for a long outage
LoopOutage ==
    /\ outages < MaxOutages
    /\ outages' = outages + 1
    /\ \E k \in LongRetries : LoopBeginAfter(k)

\* line 248: mqttClient.loop() delivers a config message to the callback
LoopReceiveOf(topic, message) ==
    /\ pc = "begin"
    /\ msgs < MaxMessages
    /\ msgs' = msgs + 1
    /\ recieveCallback(topic, message)
    /\ UNCHANGED <<now, ntpEpoch, loops, outages, pc, currentTime, isrVars, uiVars,
                   envVars, beepVars, servo, lightVars>>

\* any message on any topic
LoopReceive == \E topic \in Topics, message \in Payloads : LoopReceiveOf(topic, message)

\* handleButtons, lines 643-646
LoopBtnRight ==
    /\ pc = "btnRight"
    /\ pc' = "btnLeft"
    /\ IF btnRightPressed
       THEN btnRightPressed' = FALSE /\ handleRightButton
       ELSE UNCHANGED <<btnRightPressed, uiVars>>
    /\ UNCHANGED <<now, ntpEpoch, loops, outages, msgs, currentTime,
                   btnUpPressed, btnLeftPressed, btnDownPressed,
                   stopAlarmFlag, snoozeAlarmFlag, lastInterruptTime,
                   envVars, beepVars, cfgVars, servo, lightVars>>

\* handleButtons, lines 647-650
LoopBtnLeft ==
    /\ pc = "btnLeft"
    /\ pc' = "btnUp"
    /\ IF btnLeftPressed
       THEN btnLeftPressed' = FALSE /\ handleLeftButton
       ELSE UNCHANGED <<btnLeftPressed, uiVars>>
    /\ UNCHANGED <<now, ntpEpoch, loops, outages, msgs, currentTime,
                   btnUpPressed, btnRightPressed, btnDownPressed,
                   stopAlarmFlag, snoozeAlarmFlag, lastInterruptTime,
                   envVars, beepVars, cfgVars, servo, lightVars>>

\* handleButtons, lines 651-654
LoopBtnUp ==
    /\ pc = "btnUp"
    /\ pc' = "btnDown"
    /\ IF btnUpPressed
       THEN btnUpPressed' = FALSE /\ handleUpButton
       ELSE UNCHANGED <<btnUpPressed, uiVars>>
    /\ UNCHANGED <<now, ntpEpoch, loops, outages, msgs, currentTime,
                   btnLeftPressed, btnRightPressed, btnDownPressed,
                   stopAlarmFlag, snoozeAlarmFlag, lastInterruptTime,
                   envVars, beepVars, cfgVars, servo, lightVars>>

\* handleButtons, lines 655-658
LoopBtnDown ==
    /\ pc = "btnDown"
    /\ pc' = "env"
    /\ IF btnDownPressed
       THEN btnDownPressed' = FALSE /\ handleDownButton
       ELSE UNCHANGED <<btnDownPressed, uiVars>>
    /\ UNCHANGED <<now, ntpEpoch, loops, outages, msgs, currentTime,
                   btnLeftPressed, btnRightPressed, btnUpPressed,
                   stopAlarmFlag, snoozeAlarmFlag, lastInterruptTime,
                   envVars, beepVars, cfgVars, servo, lightVars>>

\* lines 253-254: checkEnvironment(); updateDisplay(), the sensor reading being one
\* of readings
LoopEnvDisplayOf(readings) ==
    /\ pc = "env"
    /\ pc' = "alarms"
    /\ checkEnvironment(readings)
    /\ updateDisplay
    /\ UNCHANGED <<now, ntpEpoch, loops, outages, msgs, currentTime, isrVars,
                   currentState, menuOption, viewAlarmsSelection, timeZoneOffset,
                   alarms, alarmTriggered, beepVars, cfgVars, servo, lightVars>>

\* any sensor reading
LoopEnvDisplay == LoopEnvDisplayOf(EnvReadings)

\* the box stands in a cold room: every reading is below MIN_TEMP
LoopEnvDisplayCold == LoopEnvDisplayOf({<<MIN_TEMP - 1, MIN_HUMIDITY + 5>>})

\* line 255: checkAlarms()
LoopCheckAlarms ==
    /\ pc = "alarms"
    /\ pc' = "delay"
    /\ checkAlarms
    /\ UNCHANGED <<now, ntpEpoch, loops, outages, msgs, currentTime, isrVars,
                   menuOption, viewAlarmsSelection, currentAlarmIndex, timeZoneOffset,
                   buzzer, envVars, beepVars, cfgVars, servo, lightVars>>

\* lines 258-259: adjustServo(); delay(100), the sensors reading ldrValue and temp
LoopDelayOf(ldrValue, temp) ==
    /\ pc = "delay"
    /\ pc' = "sample"
    /\ adjustServo(ldrValue, temp)
    /\ now' = now + LOOP_DELAY
    /\ UNCHANGED <<ntpEpoch, loops, outages, msgs, currentTime, isrVars, uiVars, envVars, beepVars,
                   cfgVars, lightVars>>

\* any light level and any temperature
LoopDelay ==
    \E ldrValue \in LdrReadings, readings \in EnvReadings : LoopDelayOf(ldrValue, readings[1])

\* mutant: no sample is taken in an iteration that sends
LoopSampleOf_UnlessSendDue(readings) ==
    /\ pc = "sample"
    /\ pc' = "send"
    /\ IF /\ currentTime - lastSampleTime >= samplingInterval
          /\ currentTime - lastSendTime < sendingInterval
       THEN /\ lastSampleTime' = currentTime
            /\ \E ldrValue \in readings :
                 lightIntensitySum' = lightIntensitySum + (maxLDRValue - ldrValue)
            /\ sampleCount' = sampleCount + 1
       ELSE UNCHANGED <<lastSampleTime, lightIntensitySum, sampleCount>>
    /\ UNCHANGED <<now, ntpEpoch, loops, outages, msgs, currentTime, isrVars, uiVars,
                   envVars, beepVars, cfgVars, servo, lastSendTime>>

\* lines 261-279: take a light sample, the LDR reading being one of readings
LoopSampleOf(readings) ==
    /\ pc = "sample"
    /\ pc' = "send"
    /\ IF currentTime - lastSampleTime >= samplingInterval
       THEN /\ lastSampleTime' = currentTime
            /\ \E ldrValue \in readings :
                 lightIntensitySum' = lightIntensitySum + (maxLDRValue - ldrValue)
            /\ sampleCount' = sampleCount + 1
       ELSE UNCHANGED <<lastSampleTime, lightIntensitySum, sampleCount>>
    /\ UNCHANGED <<now, ntpEpoch, loops, outages, msgs, currentTime, isrVars, uiVars,
                   envVars, beepVars, cfgVars, servo, lastSendTime>>

\* any light level
LoopSample == LoopSampleOf(LdrReadings)

\* the box stands in the dark: the LDR reads its maximum
LoopSampleDark == LoopSampleOf({maxLDRValue})

\* lines 282-297: send the mean and reset the accumulator
LoopSend ==
    /\ pc = "send"
    /\ IF currentTime - lastSendTime >= sendingInterval
       THEN /\ lastSendTime' = currentTime
            /\ lightIntensitySum' = 0
            /\ sampleCount' = 0
            /\ pc' = "alarmTrigger"
       ELSE /\ UNCHANGED <<lastSendTime, lightIntensitySum, sampleCount>>
            /\ pc' = "begin"
    /\ UNCHANGED <<now, ntpEpoch, loops, outages, msgs, currentTime, isrVars, uiVars, envVars,
                   beepVars, cfgVars, servo, lastSampleTime>>

\* lines 298-300, inside the send block
LoopAlarmTrigger ==
    /\ pc = "alarmTrigger"
    /\ pc' = "stopFlag"
    /\ IF alarmTriggered
       THEN handleAlarmTrigger
       ELSE UNCHANGED <<buzzer, buzzerState, lastBeep, currentAlarmIndex>>
    /\ UNCHANGED <<now, ntpEpoch, loops, outages, msgs, currentTime, isrVars,
                   currentState, menuOption, viewAlarmsSelection, timeZoneOffset,
                   alarms, alarmTriggered, envVars, cfgVars, servo, lightVars>>

\* lines 303-306, inside the send block
LoopStopFlag ==
    /\ pc = "stopFlag"
    /\ pc' = "snoozeFlag"
    /\ IF stopAlarmFlag
       THEN stopAlarmFlag' = FALSE /\ stopAlarm
       ELSE UNCHANGED <<stopAlarmFlag, buzzer, alarmTriggered, alarms, currentState>>
    /\ UNCHANGED <<now, ntpEpoch, loops, outages, msgs, currentTime, btnVars, snoozeAlarmFlag,
                   lastInterruptTime, menuVars, envVars, beepVars, cfgVars, servo, lightVars>>

\* lines 308-311, inside the send block
LoopSnoozeFlag ==
    /\ pc = "snoozeFlag"
    /\ pc' = "begin"
    /\ IF snoozeAlarmFlag
       THEN snoozeAlarmFlag' = FALSE /\ snoozeAlarm
       ELSE UNCHANGED <<snoozeAlarmFlag, buzzer, alarmTriggered, alarms, currentState>>
    /\ UNCHANGED <<now, ntpEpoch, loops, outages, msgs, currentTime, btnVars, stopAlarmFlag,
                   lastInterruptTime, menuVars, envVars, beepVars, cfgVars, servo, lightVars>>

\* handleButtons(), checkAlarms(), delay(100) and the test of the send interval
LoopPoll ==
    \/ LoopBtnRight
    \/ LoopBtnLeft
    \/ LoopBtnUp
    \/ LoopBtnDown
    \/ LoopCheckAlarms
    \/ LoopDelay
    \/ LoopSend

\* the alarm handling inside the send block
LoopSendBlock ==
    \/ LoopAlarmTrigger
    \/ LoopStopFlag
    \/ LoopSnoozeFlag

\* ---- the user ----
\* value v of a setting that counts modulo m stays within d of 0
Near(v, m, d) == v % m \in (0..d) \cup {m - j : j \in 1..d}

\* the user presses Up (d = 1) or Down (d = -1) on a setting page only while the
\* value shown stays near its default
AdjustOK(d) ==
    CASE currentState = "SET_ALARM_HOUR" -> Near(alarms[currentAlarmIndex].hour + d, 24, MaxHourAdjust)
      [] currentState = "SET_ALARM_MINUTE" -> Near(alarms[currentAlarmIndex].minute + d, 60, MaxMinuteAdjust)
      [] currentState = "SET_TIMEZONE" ->
           timeZoneOffset + d * 1800 - DEFAULT_TIMEZONE
              \in {j * 1800 : j \in (0 - MaxZoneAdjust)..MaxZoneAdjust}
      [] OTHER -> TRUE

\* a press while loop() is between two iterations
PressUp == pc = "begin" /\ AdjustOK(1) /\ EdgeUp
PressLeft == pc = "begin" /\ EdgeLeft
PressDown == pc = "begin" /\ AdjustOK(-1) /\ EdgeDown
PressRight == pc = "begin" /\ EdgeRight

\* ---- specifications ----
\* The device in use: presses between iterations, iterations of about five seconds
\* and a few long outages.
Next ==
    \/ LoopReconnect
    \/ LoopOutage
    \/ LoopPoll
    \/ LoopSendBlock
    \/ LoopEnvDisplayCold
    \/ LoopSampleDark
    \/ PressUp
    \/ PressLeft
    \/ PressDown
    \/ PressRight

Spec == Init /\ [][Next]_vars

\* Fast iterations (100 ms) with edges between any two steps of loop().
NextFine ==
    \/ (loops < MaxFineLoops /\ LoopBegin)
    \/ LoopPoll
    \/ LoopEnvDisplay
    \/ LoopSampleDark
    \/ EdgeUp
    \/ EdgeLeft
    \/ EdgeDown
    \/ EdgeRight

SpecFine == Init /\ [][NextFine]_vars

\* The light sampling and telemetry cadence under remote configuration, no presses.
NextLight ==
    \/ (loops < MaxLightLoops /\ LoopReconnect)
    \/ (loops < MaxLightLoops /\ LoopOutage)
    \/ LoopReceive
    \/ LoopPoll
    \/ LoopSendBlock
    \/ LoopEnvDisplayCold
    \/ LoopSample

SpecLight == Init /\ [][NextLight]_vars

\* The broker is unreachable for as long as it likes.  Lines 324-339: one pass of the
\* while loop of connectToBroker() whose connect() fails; the loop waits 5000 ms and
\* tries again, loop() being still at its first statement.
BrokerAttemptFails ==
    /\ pc = "begin"
    /\ now + BROKER_RETRY_DELAY <= MaxUptime
    /\ now' = now + BROKER_RETRY_DELAY
    /\ UNCHANGED <<ntpEpoch, loops, outages, msgs, pc, currentTime, isrVars, uiVars,
                   envVars, beepVars, cfgVars, servo, lightVars>>

\* lines 245-251: the broker is connected, or connect() succeeds
BrokerLoopStart == loops < MaxBrokerLoops /\ LoopBegin

\* the steps of loop() after connectToBroker() has returned: they wait for nothing
\* outside the device, so the processor always runs the next one
BrokerRunning ==
    \/ LoopPoll
    \/ LoopEnvDisplayCold
    \/ LoopSampleDark

NextBroker ==
    \/ BrokerAttemptFails
    \/ BrokerLoopStart
    \/ BrokerRunning
    \/ PressUp
    \/ PressLeft
    \/ PressDown
    \/ PressRight

\* An iteration that has left connectToBroker() runs to its end; whether
\* connectToBroker() returns is up to the broker, which nothing obliges to answer.
SpecBroker == Init /\ [][NextBroker]_vars /\ WF_vars(BrokerRunning)

\* The user sets the time zone: one press before every iteration, any button except
\* Right on a main menu entry other than "Set Timezone".  The iteration that handles
\* the press starts about five seconds later.
ZonePressRight ==
    /\ pc = "begin"
    /\ currentState = "MAIN_MENU" => menuOption = 2
    /\ EdgeRight
ZonePressLeft == pc = "begin" /\ EdgeLeft
ZonePressUp == pc = "begin" /\ EdgeUp
ZonePressDown == pc = "begin" /\ EdgeDown

\* lines 245-251: the connection was lost and comes back after a short reconnect
ZoneLoopReconnect ==
    /\ lastInterruptTime = now
    /\ \E k \in ShortRetries : LoopStart(k, MaxZoneLoops)
    /\ UNCHANGED outages

NextZone ==
    \/ ZoneLoopReconnect
    \/ LoopPoll
    \/ LoopSendBlock
    \/ LoopEnvDisplayCold
    \/ LoopSampleDark
    \/ ZonePressRight
    \/ ZonePressLeft
    \/ ZonePressUp
    \/ ZonePressDown

SpecZone == Init /\ [][NextZone]_vars

\* The environment is watched: iterations of 100 ms, one long outage at most, any
\* sensor reading.  Until slot 0 is active the user presses Right as soon as the
\* debounce window lets a press through, and nothing afterwards.
EnvPressRight == pc = "begin" /\ ~alarms[0].active /\ EdgeRight

\* lines 245-251: the broker is connected
EnvLoopBegin ==
    /\ alarms[0].active \/ ~DebouncePassed
    /\ LoopStart(0, MaxEnvLoops)
    /\ UNCHANGED outages

\* lines 245-251: the connection was lost for a long outage
EnvLoopOutage ==
    /\ alarms[0].active
    /\ outages < MaxEnvOutages
    /\ outages' = outages + 1
    /\ \E k \in LongRetries : LoopStart(k, MaxEnvLoops)

NextEnv ==
    \/ EnvLoopBegin
    \/ EnvLoopOutage
    \/ LoopPoll
    \/ LoopSendBlock
    \/ LoopEnvDisplay
    \/ LoopSampleDark
    \/ EnvPressRight

SpecEnv == Init /\ [][NextEnv]_vars

\* The device in use as under Spec, the user also changing the hour of an alarm.
RangeAdjustOK(d) ==
    CASE currentState = "SET_ALARM_HOUR" -> Near(alarms[currentAlarmIndex].hour + d, 24, MaxRangeAdjust)
      [] currentState = "SET_ALARM_MINUTE" -> Near(alarms[currentAlarmIndex].minute + d, 60, MaxRangeAdjust)
      [] currentState = "SET_TIMEZONE" -> FALSE
      [] OTHER -> TRUE

RangePressUp == pc = "begin" /\ RangeAdjustOK(1) /\ EdgeUp
RangePressDown == pc = "begin" /\ RangeAdjustOK(-1) /\ EdgeDown

NextRange ==
    \/ LoopReconnect
    \/ LoopOutage
    \/ LoopPoll
    \/ LoopSendBlock
    \/ LoopEnvDisplayCold
    \/ LoopSampleDark
    \/ RangePressUp
    \/ PressLeft
    \/ RangePressDown
    \/ PressRight

SpecRange == Init /\ [][NextRange]_vars

\* The user sets and deletes alarms: one press before every iteration, Up and Down
\* on every page but the three setting pages.  Iterations start about five seconds
\* after the press, or after a long outage.
OnSettingPage == currentState \in {"SET_ALARM_HOUR", "SET_ALARM_MINUTE", "SET_TIMEZONE"}
DeletePressUp == pc = "begin" /\ ~OnSettingPage /\ EdgeUp
DeletePressDown == pc = "begin" /\ ~OnSettingPage /\ EdgeDown

\* lines 245-251: the connection was lost and comes back after a short reconnect
DeleteLoopReconnect ==
    /\ lastInterruptTime = now
    /\ \E k \in ShortRetries : LoopStart(k, MaxDeleteLoops)
    /\ UNCHANGED outages

\* lines 245-251: the connection was lost for a long outage
DeleteLoopOutage ==
    /\ lastInterruptTime = now
    /\ outages < MaxDeleteOutages
    /\ outages' = outages + 1
    /\ \E k \in LongRetries : LoopStart(k, MaxDeleteLoops)

NextDelete ==
    \/ DeleteLoopReconnect
    \/ DeleteLoopOutage
    \/ LoopPoll
    \/ LoopSendBlock
    \/ LoopEnvDisplayCold
    \/ LoopSampleDark
    \/ DeletePressUp
    \/ PressLeft
    \/ DeletePressDown
    \/ PressRight

SpecDelete == Init /\ [][NextDelete]_vars

\* The light telemetry with gaps of every length between iterations: the broker is
\* connected (100 ms), comes back after a short reconnect, or after a long outage.
SendGaps == {0} \cup ShortRetries \cup LongRetries
SendLoopBegin == \E k \in SendGaps : LoopStart(k, MaxSendLoops) /\ UNCHANGED outages

NextSend ==
    \/ SendLoopBegin
    \/ LoopPoll
    \/ LoopSendBlock
    \/ LoopEnvDisplayCold
    \/ LoopSample

SpecSend == Init /\ [][NextSend]_vars

\* ---- the steps the claims speak of ----
\* stopAlarm() runs: from handleRightButton on the AlarmTriggered page, or from the
\* stop flag in the send block
StopStep ==
    \/ pc = "btnRight" /\ pc' = "btnLeft" /\ btnRightPressed
         /\ currentState = "ALARM_TRIGGERED"
    \/ pc = "stopFlag" /\ pc' = "snoozeFlag" /\ stopAlarmFlag

\* snoozeAlarm() runs: from the snooze flag in the send block
SnoozeStep == pc = "snoozeFlag" /\ pc' = "begin" /\ snoozeAlarmFlag

\* checkAlarms() runs
EvalStep == pc = "alarms" /\ pc' = "delay"

\* slot i is active, not snoozed, not ringing and set to the current wall-clock minute
Eligible(i) ==
    /\ alarms[i].active /\ ~alarms[i].snoozed /\ ~alarms[i].ringing
    /\ alarms[i].hour = getHours /\ alarms[i].minute = getMinutes

\* slot i is snoozed and its window has elapsed
SnoozeExpired(i) ==
    alarms[i].snoozed /\ now - alarms[i].snoozeStartTime >= SNOOZE_DURATION

\* some one-shot flag is pending
AnyFlagSet ==
    \/ btnUpPressed \/ btnLeftPressed \/ btnDownPressed \/ btnRightPressed
    \/ stopAlarmFlag \/ snoozeAlarmFlag

\* ---- C1 ----
\* an edge of each button would be accepted now
AllEdgesAccepted ==
    ENABLED EdgeUp /\ ENABLED EdgeLeft /\ ENABLED EdgeDown /\ ENABLED EdgeRight

\* an edge of each button would be dropped now
AllEdgesDropped ==
    ~ENABLED EdgeUp /\ ~ENABLED EdgeLeft /\ ~ENABLED EdgeDown /\ ~ENABLED EdgeRight

\* a step that accepts an edge sets the pending flag of one button, leaves the other
\* three alone and stamps the shared time of the last accepted edge
AcceptedEdgeEffect ==
    (lastInterruptTime' # lastInterruptTime) =>
        /\ now - lastInterruptTime > DEBOUNCE_TIME
        /\ lastInterruptTime' = now
        /\ \/ btnUpPressed' /\ UNCHANGED <<btnLeftPressed, btnDownPressed, btnRightPressed>>
           \/ btnLeftPressed' /\ UNCHANGED <<btnUpPressed, btnDownPressed, btnRightPressed>>
           \/ btnDownPressed' /\ UNCHANGED <<btnUpPressed, btnLeftPressed, btnRightPressed>>
           \/ btnRightPressed' /\ UNCHANGED <<btnUpPressed, btnLeftPressed, btnDownPressed>>

\* no step other than an accepted edge raises a flag
FlagsRaisedByEdgesOnly ==
    (lastInterruptTime' = lastInterruptTime) =>
        /\ btnUpPressed' => btnUpPressed
        /\ btnLeftPressed' => btnLeftPressed
        /\ btnDownPressed' => btnDownPressed
        /\ btnRightPressed' => btnRightPressed
        /\ stopAlarmFlag' => stopAlarmFlag
        /\ snoozeAlarmFlag' => snoozeAlarmFlag

\* C1 as stated, the half of it that fails: an edge arriving 200 ms or more after the
\* last accepted edge of any button is accepted.
C1_AcceptedFrom200 ==
    now - lastInterruptTime >= DEBOUNCE_TIME => AllEdgesAccepted

\* C1 as amended: an edge of any button is accepted exactly when MORE than 200 ms have
\* passed since the last accepted edge of any button, so an edge exactly 200 ms after
\* it is dropped; an accepted edge sets its button's pending flag and the time of the
\* last accepted edge, and a dropped edge changes no flag and no timestamp.
C1_DebounceStrict ==
    /\ [](now - lastInterruptTime > DEBOUNCE_TIME => AllEdgesAccepted)
    /\ [](now - lastInterruptTime <= DEBOUNCE_TIME => AllEdgesDropped)
    /\ [][AcceptedEdgeEffect /\ FlagsRaisedByEdgesOnly]_vars

\* C1 witness: after a Right press was accepted and dispatched (Welcome -> ShowTime), a
\* Left edge more than 200 ms later has just been accepted.
C1_Witness ==
    /\ currentState = "SHOW_TIME"
    /\ btnLeftPressed
    /\ lastInterruptTime = now
    /\ now > SETUP_DELAY + DEBOUNCE_TIME

\* ---- C2 ----
\* C2 as stated: an evaluation with the flag clear and a matching slot sets the flag,
\* shows AlarmTriggered and rings the matching slot, and never leaves two slots
\* ringing.
C2_OnlyOneRings ==
    [][(EvalStep /\ ~alarmTriggered /\ (\E i \in Slots : Eligible(i))) =>
          /\ alarmTriggered'
          /\ currentState' = "ALARM_TRIGGERED"
          /\ \E i \in Slots : Eligible(i) /\ alarms'[i].ringing
          /\ ~(alarms'[0].ringing /\ alarms'[1].ringing)]_vars

\* C2 as amended: an evaluation with the flag clear turns EVERY active, non-snoozed,
\* non-ringing slot set to the current wall-clock (hour, minute) to ringing, so two
\* slots set to the same minute both ring in the same evaluation; if any slot starts
\* ringing the flag is set and the page becomes AlarmTriggered, otherwise flag and page
\* are unchanged; a slot starts ringing only if it matched or its snooze expired; an
\* evaluation with the flag set changes no slot, flag or page.
C2_EveryMatchRings ==
    [][EvalStep =>
          IF alarmTriggered
          THEN UNCHANGED <<alarms, alarmTriggered, currentState>>
          ELSE /\ \A i \in Slots : Eligible(i) => alarms'[i].ringing
               /\ \A i \in Slots :
                    (alarms'[i].ringing /\ ~alarms[i].ringing) =>
                        Eligible(i) \/ (SnoozeExpired(i) /\ alarms[i].active)
               /\ IF \E i \in Slots : alarms'[i].ringing /\ ~alarms[i].ringing
                  THEN alarmTriggered' /\ currentState' = "ALARM_TRIGGERED"
                  ELSE UNCHANGED <<alarmTriggered, currentState>>]_vars

\* C2 witness: both slots, set to the current minute and never snoozed, ring right
\* after one evaluation.
C2_Witness ==
    /\ pc = "delay"
    /\ alarmTriggered
    /\ currentState = "ALARM_TRIGGERED"
    /\ \A i \in Slots :
         /\ alarms[i].ringing /\ alarms[i].active
         /\ alarms[i].snoozeStartTime = 0
         /\ alarms[i].hour = getHours /\ alarms[i].minute = getMinutes

\* ---- C3 ----
\* C3: in every reachable state no slot is both ringing and snoozed.
C3_NeverRingingAndSnoozed ==
    \A i \in Slots : ~(alarms[i].ringing /\ alarms[i].snoozed)

\* C3 witness: a slot that rang has been snoozed and is not ringing.
C3_Witness ==
    \E i \in Slots :
        /\ alarms[i].snoozed /\ ~alarms[i].ringing /\ alarms[i].active
        /\ alarms[i].snoozeStartTime > 0

\* ---- C4 ----
\* C4: a step that executes Stop (from the Right press on the AlarmTriggered page or
\* from the stop flag) leaves ringing and snoozed false on both slots and the global
\* flag false, and changes no slot's active, hour or minute.
C4_StopClearsBoth ==
    [][StopStep =>
          /\ ~alarmTriggered'
          /\ \A i \in Slots :
               /\ ~alarms'[i].ringing
               /\ ~alarms'[i].snoozed
               /\ alarms'[i].active = alarms[i].active
               /\ alarms'[i].hour = alarms[i].hour
               /\ alarms'[i].minute = alarms[i].minute]_vars

\* C4 witness: the Right press accepted on the AlarmTriggered page just before this
\* iteration has been dispatched; both slots are set to the current minute, which
\* began before the previous evaluation, so both were ringing, and neither is now.
C4_Witness ==
    /\ pc = "btnLeft"
    /\ currentState = "SHOW_TIME"
    /\ stopAlarmFlag
    /\ ~alarmTriggered
    /\ lastInterruptTime + BROKER_RETRY_DELAY = currentTime
    /\ getEpochTime % 60 > 10
    /\ \A i \in Slots :
         /\ alarms[i].active /\ ~alarms[i].ringing /\ ~alarms[i].snoozed
         /\ alarms[i].hour = getHours /\ alarms[i].minute = getMinutes

\* ---- C5 ----
\* C5 as stated: a step that executes Snooze clears the global flag, leaves the
\* indexed slot not ringing, snoozed, with snoozeStartTime the current time, leaves the
\* other slot unchanged, and marks no slot snoozed that was not ringing.
C5_SnoozeOnlyRingingSlot ==
    [][SnoozeStep =>
          /\ ~alarmTriggered'
          /\ ~alarms'[currentAlarmIndex].ringing
          /\ alarms'[currentAlarmIndex].snoozed
          /\ alarms'[currentAlarmIndex].snoozeStartTime = now
          /\ \A i \in Slots : i # currentAlarmIndex => alarms'[i] = alarms[i]
          /\ \A i \in Slots :
               (alarms'[i].snoozed /\ ~alarms[i].snoozed) => alarms[i].ringing]_vars

C7_RightStopsDownSnoozes ==
    [][/\ (pc = "btnRight" /\ pc' = "btnLeft" /\ btnRightPressed
             /\ currentState = "ALARM_TRIGGERED") =>
            /\ currentState' = "SHOW_TIME"
            /\ ~alarmTriggered'
            /\ \A i \in Slots : ~alarms'[i].ringing /\ ~alarms'[i].snoozed
       /\ (pc = "btnDown" /\ pc' = "env" /\ btnDownPressed
             /\ currentState = "ALARM_TRIGGERED") =>
            /\ currentState' = "SHOW_TIME"
            /\ ~alarmTriggered'
            /\ alarms'[currentAlarmIndex].snoozed
            /\ ~alarms'[currentAlarmIndex].ringing
       /\ (/\ \/ pc = "btnLeft" /\ pc' = "btnUp" /\ btnLeftPressed
              \/ pc = "btnUp" /\ pc' = "btnDown" /\ btnUpPressed
           /\ currentState = "ALARM_TRIGGERED") =>
            UNCHANGED <<currentState, alarms, alarmTriggered>>]_vars

\* ---- C8 ----
\* C8 as stated: when an iteration of loop() has ended and no edge was accepted since
\* it read the clock, none of the six one-shot flags is still set.
C8_FlagsClearedEachCycle ==
    (pc = "begin" /\ loops >= 1 /\ lastInterruptTime < currentTime) => ~AnyFlagSet

\* ---- C9 ----
\* C9 as stated: the intervals the sampling and sending steps compare against elapsed
\* time are the current values of the tunables the config messages set.
C9_IntervalsFollowTunables ==
    samplingInterval = ts /\ sendingInterval = tu

\* ---- C10 ----
\* C10 as stated: the beep is driven in every iteration of loop() while the alarm
\* rings, so when an iteration has ended with the flag set the buzzer was toggled no
\* more than 500 ms ago.
C10_BeepEveryCycle ==
    (pc = "begin" /\ loops >= 1 /\ alarmTriggered) => now - lastBeep <= BEEP_INTERVAL

\* ---- C11 ----
\* C11 as stated: every iteration of loop() that has begun completes, and while
\* iterations remain to be run every pending button flag is eventually consumed by a
\* later iteration, whatever the broker does.
C11_FlagsEventuallyServiced ==
    /\ (pc # "begin") ~> (pc = "begin")
    /\ (btnRightPressed /\ loops < MaxBrokerLoops) ~> ~btnRightPressed
    /\ (btnLeftPressed /\ loops < MaxBrokerLoops) ~> ~btnLeftPressed
    /\ (btnUpPressed /\ loops < MaxBrokerLoops) ~> ~btnUpPressed
    /\ (btnDownPressed /\ loops < MaxBrokerLoops) ~> ~btnDownPressed

\* ---- C12 ----
\* the payloads that are an integer n, with n
IntegerPayloads == {<<"1", "0">>, <<"2">>, <<"-", "3">>}
IntegerOf(message) ==
    CASE message = <<"1", "0">> -> 10
      [] message = <<"2">> -> 2
      [] message = <<"-", "3">> -> -3

\* the payloads that are a number, with the number in hundredths
NumericPayloads == IntegerPayloads \cup {<<"0", ".", "5">>}
HundredthsOf(message) ==
    IF message = <<"0", ".", "5">> THEN 50 ELSE 100 * IntegerOf(message)

\* the payloads that do not begin with a number
NonNumericPayloads == {<<"a", "b">>}

\* what the field of a channel holds after a message, where C12 says so
Ingested(topic, message) ==
    /\ (topic = "sampling_interval" /\ message \in IntegerPayloads) =>
          ts' = IntegerOf(message) * 1000
    /\ (topic = "sending_interval" /\ message \in IntegerPayloads) =>
          tu' = IntegerOf(message) * 60000
    /\ (topic = "AmpTemp" /\ message \in NumericPayloads) => T_med' = HundredthsOf(message)
    /\ (topic = "ControlFactor" /\ message \in NumericPayloads) =>
          controlFactor' = HundredthsOf(message)
    /\ (topic = "minAngle" /\ message \in NumericPayloads) =>
          theta_offset' = HundredthsOf(message)
    /\ message \in NonNumericPayloads =>
          /\ topic = "sampling_interval" => ts' = 0
          /\ topic = "sending_interval" => tu' = 0
          /\ topic = "AmpTemp" => T_med' = 0
          /\ topic = "ControlFactor" => controlFactor' = 0
          /\ topic = "minAngle" => theta_offset' = 0
    /\ topic # "sampling_interval" => UNCHANGED ts
    /\ topic # "sending_interval" => UNCHANGED tu
    /\ topic # "AmpTemp" => UNCHANGED T_med
    /\ topic # "ControlFactor" => UNCHANGED controlFactor
    /\ topic # "minAngle" => UNCHANGED theta_offset

\* C12: whenever a config message can be delivered, for every channel and payload its
\* delivery sets ts to n * 1000 (sampling interval, integer payload n; "10" gives
\* 10000), tu to n * 60000 (sending interval), T_med, controlFactor or theta_offset to
\* the parsed number; it leaves the four other tunables unchanged (all five on an
\* unrecognized channel), and a payload that is no number sets the field to zero.
C12_ConfigIngestion ==
    (pc = "begin" /\ msgs < MaxMessages) =>
        \A topic \in Topics, message \in Payloads :
            ENABLED (LoopReceiveOf(topic, message) /\ Ingested(topic, message))

\* C12 witness: "10" on the sampling-interval channel and then "ab" on the
\* control-factor channel have been delivered.
C12_Witness ==
    /\ msgs = 2
    /\ ts = 10000 /\ controlFactor = 0
    /\ tu = 120000 /\ T_med = 3000 /\ theta_offset = 3000

\* ---- C13 ----
\* adjustServo() runs
ServoStep == pc = "delay" /\ pc' = "sample"

\* the angle commanded in this step lies within [theta_offset, 180], and is
\* theta_offset when controlFactor is 0
AngleInRange ==
    /\ servo'.commanded = "angle"
    /\ servo'.theta >= theta_offset
    /\ servo'.theta <= 18000
    /\ controlFactor = 0 => servo'.theta = theta_offset

\* with the light at 0 (the LDR reads its maximum) adjustServo() commands theta_offset
\* at every temperature
NoLightGivesOffset ==
    \A readings \in EnvReadings :
        ServoWrite(constrain(Theta(maxLDRValue, readings[1]), theta_offset, 18000))
            = [commanded |-> "angle", theta |-> theta_offset]

TunablesWellFormed == ts > 0 /\ tu > 0 /\ T_med # 0 /\ theta_offset <= 18000

RightHandled == pc = "btnRight" /\ btnRightPressed /\ pc' = "btnLeft"
LeftHandled == pc = "btnLeft" /\ btnLeftPressed /\ pc' = "btnUp"
UpHandled == pc = "btnUp" /\ btnUpPressed /\ pc' = "btnDown"
DownHandled == pc = "btnDown" /\ btnDownPressed /\ pc' = "env"

\* the first press that can reach the timezone page is the fifth (Right, Right, two
\* presses to move the cursor, Right)
PressesToZonePage == 5

\* C14: on the SetTimezone page each Up adds 1800 s and each Down subtracts 1800 s,
\* 86400 being taken off or added when the result passes +86400 or -86400, so the
\* offset stays within [-86400, +86400]; k presses from +19800 give 19800 + 1800 * k at
\* most (six Ups give +30600); Right and Left lead to MainMenu with the offset unchanged.
C14_TimezoneAdjust ==
    /\ [](timeZoneOffset >= -86400 /\ timeZoneOffset <= 86400)
    /\ []((loops >= PressesToZonePage /\ loops <= PressesToZonePage + 6)
            => timeZoneOffset <= DEFAULT_TIMEZONE + 1800 * (loops - PressesToZonePage))
    /\ [][(UpHandled /\ currentState = "SET_TIMEZONE") =>
            /\ timeZoneOffset' = IF timeZoneOffset + 1800 > 86400
                                 THEN timeZoneOffset + 1800 - 86400
                                 ELSE timeZoneOffset + 1800
            /\ currentState' = currentState]_vars
    /\ [][(DownHandled /\ currentState = "SET_TIMEZONE") =>
            /\ timeZoneOffset' = IF timeZoneOffset - 1800 < -86400
                                 THEN timeZoneOffset - 1800 + 86400
                                 ELSE timeZoneOffset - 1800
            /\ currentState' = currentState]_vars
    /\ [][((RightHandled \/ LeftHandled) /\ currentState = "SET_TIMEZONE") =>
            /\ currentState' = "MAIN_MENU"
            /\ timeZoneOffset' = timeZoneOffset]_vars

\* C14 witness: the eleventh iteration has handled the sixth Up on the SetTimezone page
\* and the offset is +30600.
C14_Witness ==
    /\ loops = PressesToZonePage + 6
    /\ pc = "btnDown"
    /\ currentState = "SET_TIMEZONE"
    /\ timeZoneOffset = 30600

\* ---- C15 ----
\* Up followed by Down, and Down followed by Up, give back the cursors they started from
CursorRoundTrip ==
    \A i \in 0..3, j \in 0..1 :
        (menuOption = i /\ viewAlarmsSelection = j) =>
            /\ ENABLED (handleUpButton /\
                        (ENABLED (handleDownButton /\ menuOption' = i
                                                   /\ viewAlarmsSelection' = j))')
            /\ ENABLED (handleDownButton /\
                        (ENABLED (handleUpButton /\ menuOption' = i
                                                 /\ viewAlarmsSelection' = j))')

\* C15: on MainMenu Up moves the cursor from i to (i - 1) mod 4 and Down to
\* (i + 1) mod 4; on ViewAlarms Up and Down both move the selection to the other of the
\* two entries; on both pages Up then Down, and Down then Up, restore the cursor.
C15_CursorWraps ==
    /\ [][(UpHandled /\ currentState = "MAIN_MENU") =>
            menuOption' = (menuOption - 1) % 4 /\ currentState' = currentState]_vars
    /\ [][(DownHandled /\ currentState = "MAIN_MENU") =>
            menuOption' = (menuOption + 1) % 4 /\ currentState' = currentState]_vars
    /\ [][((UpHandled \/ DownHandled) /\ currentState = "VIEW_ALARMS") =>
            viewAlarmsSelection' = 1 - viewAlarmsSelection /\ currentState' = currentState]_vars
    /\ [](currentState \in {"MAIN_MENU", "VIEW_ALARMS"} => CursorRoundTrip)

\* C15 witness: the third iteration has handled an Up on MainMenu with the cursor on
\* the first entry, and the cursor is on the last entry.
C15_Witness ==
    /\ loops = 3
    /\ pc = "btnDown"
    /\ currentState = "MAIN_MENU"
    /\ menuOption = 3

\* ---- C16 ----
\* checkEnvironment() is called
EnvStep == pc = "env" /\ pc' = "alarms"

\* checkEnvironment() takes a sample: the warning follows the bounds and the buzzer is
\* asserted exactly when the warning is set and no alarm is ringing
EnvSampled ==
    /\ lastEnvCheck' = now
    /\ <<temperature', humidity'>> \in EnvReadings
    /\ envWarning' = (temperature' < 24 \/ temperature' > 32
                      \/ humidity' < 65 \/ humidity' > 80)
    /\ buzzer' = (envWarning' /\ ~alarmTriggered)

\* the Environment Monitor does not assert the buzzer while an alarm is ringing
EnvYieldsToAlarm == (alarmTriggered /\ ~buzzer) => ~buzzer'

\* C16 as stated: once 2000 ms have elapsed since the previous sample the Environment
\* Monitor takes a sample, which sets the warning from the four bounds and the buzzer
\* to (warning and no alarm ringing); it never asserts the buzzer while an alarm rings.
C16_SampleFrom2000 ==
    [][EnvStep => /\ now - lastEnvCheck >= 2000 => EnvSampled
                  /\ EnvYieldsToAlarm]_vars

\* C16 as amended: the same with a sample taken once more than 2000 ms have elapsed;
\* until then the reading, the warning and the buzzer are left as they are.
C16_SampleAfter2000 ==
    [][EnvStep => /\ IF now - lastEnvCheck > 2000
                     THEN EnvSampled
                     ELSE UNCHANGED <<temperature, humidity, lastEnvCheck, envWarning, buzzer>>
                  /\ EnvYieldsToAlarm]_vars

\* C16 witness: a sample taken while an alarm rings has found the humidity above its
\* bound; the warning is set and the buzzer is cleared.
C16_Witness ==
    /\ pc = "alarms"
    /\ lastEnvCheck = now
    /\ alarmTriggered
    /\ humidity = 81
    /\ envWarning
    /\ ~buzzer

\* ---- C17 ----
\* C17: in every reachable state the hour of each slot is in 0..23 and its minute in
\* 0..59, menuOption is in 0..3, viewAlarmsSelection and currentAlarmIndex are in 0..1.
C17_Ranges ==
    /\ \A i \in Slots : alarms[i].hour \in 0..23 /\ alarms[i].minute \in 0..59
    /\ menuOption \in 0..3
    /\ viewAlarmsSelection \in 0..1
    /\ currentAlarmIndex \in 0..1

\* C17 witness: Down has taken the hour of slot 1 from 0 to 23 and its minute from 0
\* to 59, and the slot is active.
C17_Witness ==
    /\ currentAlarmIndex = 1
    /\ alarms[1].hour = 23
    /\ alarms[1].minute = 59
    /\ alarms[1].active

\* ---- C18 ----
\* slot i is deactivated and nothing else is changed in either slot
OnlyDeactivated(i) ==
    alarms' = [alarms EXCEPT ![i] = [@ EXCEPT !.active = FALSE, !.ringing = FALSE,
                                              !.snoozed = FALSE]]

\* the cursors, the timezone and the alarm episode are left alone
DeleteFrame ==
    UNCHANGED <<menuOption, viewAlarmsSelection, currentAlarmIndex, timeZoneOffset,
                alarmTriggered, buzzer>>

\* C18: on ViewAlarms a Right leads to ConfirmDelete if the selected slot is active and
\* changes nothing otherwise; on ConfirmDelete an Up or a Right clears active, ringing
\* and snoozed of the selected slot, leaves the other slot as it is and leads to
\* ViewAlarms; a Down leads to ViewAlarms with both slots unchanged.
C18_AlarmDeletion ==
    /\ [][(RightHandled /\ currentState = "VIEW_ALARMS") =>
            /\ currentState' = IF alarms[viewAlarmsSelection].active
                               THEN "CONFIRM_DELETE" ELSE "VIEW_ALARMS"
            /\ alarms' = alarms
            /\ DeleteFrame]_vars
    /\ [][((UpHandled \/ RightHandled) /\ currentState = "CONFIRM_DELETE") =>
            /\ OnlyDeactivated(viewAlarmsSelection)
            /\ currentState' = "VIEW_ALARMS"
            /\ DeleteFrame]_vars
    /\ [][(DownHandled /\ currentState = "CONFIRM_DELETE") =>
            /\ alarms' = alarms
            /\ currentState' = "VIEW_ALARMS"
            /\ DeleteFrame]_vars

\* C18 witness: slot 0, which had rung and been snoozed, has been deleted on
\* ConfirmDelete and slot 1 is still active.
C18_Witness ==
    /\ currentState = "VIEW_ALARMS"
    /\ viewAlarmsSelection = 0
    /\ ~alarms[0].active /\ ~alarms[0].snoozed
    /\ alarms[0].snoozeStartTime > 0
    /\ alarms[1].active

\* ---- C19 ----
\* C19 as stated: stopAlarm() and snoozeAlarm() run only while the page is
\* AlarmTriggered, and snoozeAlarm() only on a ringing slot: a flag left from an
\* episode that has ended moves no other page to ShowTime and snoozes no silent slot.
C19_StopSnoozeOnlyOnAlarmPage ==
    [][/\ (StopStep \/ SnoozeStep) => currentState = "ALARM_TRIGGERED"
       /\ SnoozeStep => alarms[currentAlarmIndex].ringing]_vars

\* ---- C20 ----
\* C20 as stated: a slot that Stop has silenced stays silent while the wall-clock minute
\* is the one in which it was stopped: right after Stop it is not a slot that the
\* scheduler, evaluated in that minute, makes ring.
C20_SilentAfterStop ==
    [][\A i \in Slots : (StopStep /\ alarms[i].ringing) => ~Eligible(i)']_vars

\* ---- C21 ----
\* C21 as stated: between two iterations of loop() the global alarmTriggered flag is set
\* if and only if some slot is ringing.
C21_FlagIffSomeSlotRinging ==
    pc = "begin" => (alarmTriggered <=> \E i \in Slots : alarms[i].ringing)

\* ---- C22 ----
\* the page is AlarmTriggered
OnAlarmPage == currentState = "ALARM_TRIGGERED"

\* C22: between two iterations of loop() the page is AlarmTriggered if and only if the
\* global alarmTriggered flag is set, and every step that moves the page into or out of
\* AlarmTriggered sets or clears the flag in the same step.
C22_PageIffFlag ==
    /\ [](pc = "begin" => (OnAlarmPage <=> alarmTriggered))
    /\ [][(OnAlarmPage # OnAlarmPage') =>
            /\ alarmTriggered = OnAlarmPage
            /\ alarmTriggered' = OnAlarmPage']_vars

\* C22 witness: an alarm has rung and been snoozed; the iteration has ended on
\* ShowTime with the flag clear.
C22_Witness ==
    /\ pc = "begin"
    /\ currentState = "SHOW_TIME"
    /\ ~alarmTriggered
    /\ alarms[0].snoozed

\* ---- C23 ----
\* an interrupt handler accepts an edge
EdgeAccepted == lastInterruptTime' # lastInterruptTime

\* C23 as stated: every accepted edge gets a dispatch of its own: it raises a pending
\* flag that was clear, and is not merged into a press that still waits for
\* handleButtons().
C23_EveryEdgeDispatchedOnce ==
    [][EdgeAccepted => btnVars' # btnVars]_vars

\* ---- C24 ----
\* the send block runs: the mean is computed and published
SendStep == pc = "send" /\ currentTime - lastSendTime >= sendingInterval /\ pc' # pc

\* C24: whenever the mean is computed the sample count is at least 1, and after the
\* send the sum and the count are both 0.
C24_MeanHasSamples ==
    [][SendStep => /\ sampleCount >= 1
                   /\ sampleCount' = 0
                   /\ lightIntensitySum' = 0]_vars

\* C24 witness: a second send has just been made, in an iteration that took a sample
\* first, and the accumulator is empty.
C24_Witness ==
    /\ pc = "alarmTrigger"
    /\ lastSendTime = currentTime
    /\ lastSendTime >= 2 * sendingInterval
    /\ lastSampleTime = currentTime
    /\ loops >= 4
    /\ sampleCount = 0 /\ lightIntensitySum = 0

====
